---- MODULE Spec2Model ----
(***************************************************************************)
(* A model of the two NZBGet post-processing scripts                       *)
(*   src/post-process-restoremod.py  (restore default modes and ACLs)      *)
(*   src/post-process-restorecon.py  (restore default SELinux contexts)    *)
(* The state is the environment the script is started with, the file       *)
(* system it walks, the position of the script, its log and its exit code. *)
(***************************************************************************)
EXTENDS Integers, Sequences, FiniteSets, TLC

VARIABLES
    script,          \* which of the two scripts runs
    environ,         \* os.environ: NZBPP_TOTALSTATUS, NZBPP_DIRECTORY
    umask,           \* the process umask
    HAS_ACL_ENTRY,   \* posix1e.HAS_ACL_ENTRY of the pylibacl build
    fs,              \* the file system: mode, access ACL, default ACL, context
    fs0,             \* history: the file system the script started with
    pc,              \* position of the script
    status,          \* module variable "status"
    directory,       \* module variable "directory"
    directory_dacl,  \* module variable "directory_dacl" (a posix1e.ACL object)
    directory_mode,  \* module variable "directory_mode"
    restore_mode,    \* which partial "restore_permissions" is
    todo,            \* os.walk: directories still to be listed
    pending,         \* descendants: paths of the current listing not yet yielded
    trace,           \* history: the paths yielded and what their restoration raised
    scans,           \* history: the directories os.walk listed and whether that failed
    log,             \* the lines printed
    faults,          \* history: the restorations and listings that met a failing call
    exitcode         \* the exit status of the process, 0 while it runs

vars == << script, environ, umask, HAS_ACL_ENTRY, fs, fs0, pc, status, directory, directory_dacl,
           directory_mode, restore_mode, todo, pending, trace, scans, faults, log,
           exitcode >>

----------------------------------------------------------------------------
(* Bounds of the model.                                                    *)

\* Directories nest this deep below the destination directory.
MaxDepth == 2
\* At most this many restorations or listings meet a failing call in one run.
MaxFaults == 1

----------------------------------------------------------------------------
(* Integers as bit fields: Python's &, | and ~ on st_mode values.          *)

Word == 65536

RECURSIVE And(_, _)
And(a, b) ==
    IF a = 0 \/ b = 0 THEN 0
    ELSE (a % 2) * (b % 2) + 2 * And(a \div 2, b \div 2)

\* a & b, for operands of which one at least lies in 0..Word-1
BitAnd(a, b) == And(a % Word, b % Word)
\* a | b, for operands in 0..Word-1
BitOr(a, b) == a + b - And(a, b)
\* ~a
BitNot(a) == (0 - a) - 1

S_ISUID == 2048
S_ISGID == 1024
S_ISVTX == 512
S_IFMT  == 61440
S_IFDIR == 16384
S_IFREG == 32768
S_IFLNK == 40960
\* the bits chmod(2) takes from its argument (0o7777)
S_IALLUGO == 4095
\* 0o0777 and 0o0666
RWX_ALL  == 511
RW_ALL   == 438

S_ISDIR(m) == BitAnd(m, S_IFMT) = S_IFDIR
S_ISLNK(m) == BitAnd(m, S_IFMT) = S_IFLNK

----------------------------------------------------------------------------
(* Paths and the file system the scripts walk.  A path is the sequence of  *)
(* its names.  Below the destination directory every directory holds a     *)
(* subdirectory "d", a regular file "f" and a symbolic link "l", down to   *)
(* MaxDepth; the deepest directory is empty.                               *)

DEST == << "dest" >>          \* the destination directory
LNK  == << "lnk" >>           \* a symbolic link to DEST
FILE == << "file" >>          \* a regular file
GONE == << "gone" >>          \* a path that does not exist
EXT  == << "ext" >>           \* a directory outside the destination tree

Front(s) == SubSeq(s, 1, Len(s) - 1)
Last(s)  == s[Len(s)]

\* os.path.join(dirpath, name)
join(dirpath, name) == dirpath \o << name >>

\* The type of the object at a location none of whose parents is a link.
Kind(o) ==
    IF o = DEST \/ o = EXT THEN "dir"
    ELSE IF o = LNK THEN "link"
    ELSE IF o = FILE \/ o = join(EXT, "f") THEN "file"
    ELSE IF /\ Len(o) \in 2..(MaxDepth + 1)
            /\ o[1] = "dest"
            /\ \A i \in 2..(Len(o) - 1) : o[i] = "d"
         THEN CASE Last(o) = "d" -> "dir"
                [] Last(o) = "f" -> "file"
                [] Last(o) = "l" -> "link"
                [] OTHER -> "none"
    ELSE "none"

\* Where a symbolic link points: the link of the destination directory to a
\* directory outside the tree, deeper links to a file inside it.
Target(l) ==
    IF l = LNK THEN DEST
    ELSE IF Len(l) = 2 THEN EXT
    ELSE join(DEST, "f")

\* os.path.realpath(path)
RECURSIVE realpath(_)
realpath(path) ==
    IF path = << >> THEN << >>
    ELSE LET p == join(realpath(Front(path)), Last(path))
         IN  IF Kind(p) = "link" THEN realpath(Target(p)) ELSE p

\* The object a call that does not follow a final link acts on (lstat).
lobject(path) == join(realpath(Front(path)), Last(path))

DirChain(k) == DEST \o [i \in 1..k |-> "d"]
Objects ==
    {DirChain(k) : k \in 0..MaxDepth}
      \cup {join(DirChain(k), n) : k \in 0..(MaxDepth - 1), n \in {"f", "l"}}
      \cup {LNK, FILE, EXT, join(EXT, "f")}

\* The paths of the tree rooted at the destination directory.
TreeObjects == {o \in Objects : o[1] = "dest"}

\* os.scandir(top): the names in the directory, in directory order.
scandir(top) ==
    LET o == realpath(top)
    IN  IF o = EXT THEN << "f" >>
        ELSE IF Kind(o) = "dir" /\ Len(o) - 1 < MaxDepth THEN << "d", "f", "l" >>
        ELSE << >>

\* os.path.isdir, os.path.exists, os.path.islink
isdir(path)  == Kind(realpath(path)) = "dir"
exists(path) == Kind(realpath(path)) # "none"
islink(path) == Kind(lobject(path)) = "link"

TypeBits(k) ==
    CASE k = "dir"  -> S_IFDIR
      [] k = "file" -> S_IFREG
      [] k = "link" -> S_IFLNK

\* os.lstat(path)[stat.ST_MODE] and os.stat(path)[stat.ST_MODE]
lstat(f, path) == TypeBits(Kind(lobject(path))) + f.mode[lobject(path)]
stat(f, path)  == TypeBits(Kind(realpath(path))) + f.mode[realpath(path)]

----------------------------------------------------------------------------
(* POSIX.1e ACLs: an ACL is a set of entries                  *)
(* [tag_type, qualifier, permset], permset the rwx bits (r = 4, w = 2,     *)
(* x = 1).                                                                 *)

ACL_EXECUTE == 1
ACL_USER_OBJ  == "ACL_USER_OBJ"
ACL_USER      == "ACL_USER"
ACL_GROUP_OBJ == "ACL_GROUP_OBJ"
ACL_GROUP     == "ACL_GROUP"
ACL_MASK      == "ACL_MASK"
ACL_OTHER     == "ACL_OTHER"

Entry(t, q, p) == [tag_type |-> t, qualifier |-> q, permset |-> p]

\* for entry in acl: if entry.tag_type == posix1e.ACL_MASK: return True
acl_has_mask(acl) == \E entry \in acl : entry.tag_type = ACL_MASK

\* The ACL of an object without extended entries: its mode's three classes.
MinimalAcl(m) ==
    { Entry(ACL_USER_OBJ, 0, (m \div 64) % 8),
      Entry(ACL_GROUP_OBJ, 0, (m \div 8) % 8),
      Entry(ACL_OTHER, 0, m % 8) }

\* The permset of the entry of the ACL with this tag (the tag occurs once).
PermOf(acl, tag) == (CHOOSE e \in acl : e.tag_type = tag).permset

\* The tag whose permset is the group class of the mode.
GroupClass(acl) == IF acl_has_mask(acl) THEN ACL_MASK ELSE ACL_GROUP_OBJ

\* The rwx bits an access ACL gives the mode.
ModeOfAcl(acl) ==
    PermOf(acl, ACL_USER_OBJ) * 64
      + PermOf(acl, GroupClass(acl)) * 8
      + PermOf(acl, ACL_OTHER)

\* The access ACL after chmod: the three classes follow the mode.
SyncAcl(acl, m) ==
    { IF e.tag_type = ACL_USER_OBJ THEN [e EXCEPT !.permset = (m \div 64) % 8]
      ELSE IF e.tag_type = GroupClass(acl) THEN [e EXCEPT !.permset = (m \div 8) % 8]
      ELSE IF e.tag_type = ACL_OTHER THEN [e EXCEPT !.permset = m % 8]
      ELSE e : e \in acl }

\* os.chmod(path, mode): follows links; the kernel keeps the bits S_IALLUGO of
\* the argument taken as an unsigned integer.
chmod(f, path, m) ==
    LET o == realpath(path)
        bits == m % (S_IALLUGO + 1)
    IN  [f EXCEPT !.mode[o] = bits, !.acl[o] = SyncAcl(f.acl[o], bits)]

\* acl.applyto(path, posix1e.ACL_TYPE_ACCESS): an empty ACL removes the
\* extended entries and leaves the mode; any other sets the rwx bits too.
applyto_access(f, acl, path) ==
    LET o == realpath(path)
    IN  IF acl = {}
        THEN [f EXCEPT !.acl[o] = MinimalAcl(f.mode[o])]
        ELSE [f EXCEPT !.acl[o] = acl,
                       !.mode[o] = BitAnd(f.mode[o], S_ISUID + S_ISGID + S_ISVTX)
                                     + ModeOfAcl(acl)]

\* acl.applyto(path, posix1e.ACL_TYPE_DEFAULT)
applyto_default(f, acl, path) == [f EXCEPT !.dacl[realpath(path)] = acl]

\* posix1e.has_extended(path)
has_extended(f, path) ==
    LET o == realpath(path)
    IN  \/ \E e \in f.acl[o] : e.tag_type \notin {ACL_USER_OBJ, ACL_GROUP_OBJ, ACL_OTHER}
        \/ f.dacl[o] # {}

----------------------------------------------------------------------------
(* post-process-restoremod.py, utilities: system.  An optional argument is *)
(* None or << value >>.                                                    *)

None == << >>
Some(v) == << v >>

\* umask_get(): os.umask(0) returns the umask, which the second call restores
umask_get(um) == BitAnd(um, RWX_ALL)

restoremode(f, path, followlinks, mask_arg, um) ==
    LET mask_mask == BitOr(S_ISUID, S_ISGID)
        mask == IF mask_arg = None THEN mask_mask ELSE BitAnd(mask_arg[1], mask_mask)
        mode_lstat == lstat(f, path)
    IN  IF S_ISLNK(mode_lstat) /\ ~followlinks THEN f
        ELSE LET mode_stat == stat(f, path)
                 um_ == umask_get(um)
                 mode_attr == BitAnd(mode_stat, mask)
                 mode_perm == IF S_ISDIR(mode_stat)
                              THEN BitOr(RWX_ALL - um_, mode_attr)
                              ELSE RW_ALL - um_
             IN  chmod(f, path, mode_perm)

restoreattr(f, path, followlinks, mask_arg) ==
    LET mask_attr == BitOr(BitOr(S_ISUID, S_ISGID), S_ISVTX)
        mask_excl == IF mask_arg = None THEN S_ISGID ELSE BitAnd(mask_arg[1], mask_attr)
        mode_lstat == lstat(f, path)
    IN  IF S_ISLNK(mode_lstat) /\ ~followlinks THEN f
        ELSE LET mode_stat == stat(f, path)
                 mode_perm0 ==
                     IF S_ISDIR(mode_stat)
                     THEN BitAnd(mode_stat, BitNot(BitAnd(mask_attr, BitNot(mask_excl))))
                     ELSE BitAnd(mode_stat, BitNot(mask_attr))
                 mode_perm == BitAnd(S_IALLUGO, mode_perm0)
             IN  IF mode_perm # BitAnd(mode_stat, S_IALLUGO)
                 THEN chmod(f, path, mode_perm)
                 ELSE f

\* Variant: the bits are taken from the path's own mode, not from the
\* destination's, which changes nothing.
inheritattr_own_mode(f, mode, path, mask_arg) == f

inheritattr(f, mode, path, mask_arg) ==
    LET mask_attr == BitOr(BitOr(S_ISUID, S_ISGID), S_ISVTX)
        mask_incl == IF mask_arg = None THEN S_ISGID ELSE BitAnd(mask_arg[1], mask_attr)
        mode_stat == lstat(f, path)
    IN  IF ~S_ISDIR(mode_stat) THEN f
        ELSE LET mode_perm0 == BitOr(BitAnd(mode_stat, BitNot(mask_incl)),
                                     BitAnd(mode, mask_incl))
                 mode_perm == BitAnd(S_IALLUGO, mode_perm0)
             IN  IF mode_perm # BitAnd(mode_stat, S_IALLUGO)
                 THEN chmod(f, path, mode_perm)
                 ELSE f

\* entry.permset.delete(posix1e.ACL_EXECUTE)
permset_delete(entry, perm) ==
    [entry EXCEPT !.permset = entry.permset - BitAnd(entry.permset, perm)]

\* Variant: execute is kept by the named and group entries whether or not the
\* ACL has a mask.
inheritdacl_unmasked(f, acl_arg, path) ==
    LET acl_masked_entries == {ACL_USER, ACL_GROUP_OBJ, ACL_GROUP}
        mode_stat == lstat(f, path)
    IN  IF S_ISLNK(mode_stat) THEN [fs |-> f, acl |-> acl_arg]
        ELSE LET acl == IF ~S_ISDIR(mode_stat)
                        THEN { IF entry.tag_type \notin acl_masked_entries
                               THEN permset_delete(entry, ACL_EXECUTE)
                               ELSE entry : entry \in acl_arg }
                        ELSE acl_arg
                 f1 == applyto_access(f, acl, path)
                 f2 == IF S_ISDIR(mode_stat) THEN applyto_default(f1, acl, path) ELSE f1
             IN  [fs |-> f2, acl |-> acl_arg]

\* acl = posix1e.ACL(acl=acl): a copy; the loop changes the copy's entries.
\* The result is the file system and the ACL object the caller passed in.
inheritdacl(f, acl_arg, path) ==
    LET acl_masked_entries == {ACL_USER, ACL_GROUP_OBJ, ACL_GROUP}
        mode_stat == lstat(f, path)
    IN  IF S_ISLNK(mode_stat) THEN [fs |-> f, acl |-> acl_arg]
        ELSE LET acl_masked == acl_has_mask(acl_arg)
                 acl == IF ~S_ISDIR(mode_stat)
                        THEN { IF entry.tag_type \notin acl_masked_entries \/ ~acl_masked
                               THEN permset_delete(entry, ACL_EXECUTE)
                               ELSE entry : entry \in acl_arg }
                        ELSE acl_arg
                 f1 == applyto_access(f, acl, path)
                 f2 == IF S_ISDIR(mode_stat) THEN applyto_default(f1, acl, path) ELSE f1
             IN  [fs |-> f2, acl |-> acl_arg]

\* posix1e.HAS_EXTENDED_CHECK holds on Linux.
discardeacl(f, path, followlinks) ==
    IF islink(path) /\ ~followlinks THEN f
    ELSE IF ~has_extended(f, path) THEN f
    ELSE applyto_default(applyto_access(f, {}, path), {}, path)

\* Variant: restoremode and discardeacl are called with followlinks left at
\* its default, True.
restore_from_ps_follow(f, mode, path, um, upto) ==
    LET f1 == restoremode(f, path, TRUE, Some(S_ISGID), um)
        f2 == inheritattr(f1, mode, path, None)
        f3 == discardeacl(f2, path, TRUE)
    IN  CASE upto = 0 -> f
          [] upto = 1 -> f1
          [] upto = 2 -> f2
          [] OTHER -> f3

\* restore_from_ps(mode, path), as far as its first "upto" calls
restore_from_ps(f, mode, path, um, upto) ==
    LET f1 == restoremode(f, path, FALSE, Some(S_ISGID), um)
        f2 == inheritattr(f1, mode, path, None)
        f3 == discardeacl(f2, path, FALSE)
    IN  CASE upto = 0 -> f
          [] upto = 1 -> f1
          [] upto = 2 -> f2
          [] OTHER -> f3

\* restore_from_fs(acl, mode, path), as far as its first "upto" calls
restore_from_fs(f, acl, mode, path, upto) ==
    LET f1 == restoreattr(f, path, FALSE, None)
        f2 == inheritattr(f1, mode, path, None)
        r3 == inheritdacl(f2, acl, path)
    IN  CASE upto = 0 -> [fs |-> f, acl |-> acl]
          [] upto = 1 -> [fs |-> f1, acl |-> acl]
          [] upto = 2 -> [fs |-> f2, acl |-> acl]
          [] OTHER -> r3

----------------------------------------------------------------------------
(* post-process-restorecon.py: improved libselinux-python bindings.        *)
(* What an OS or library call raises is the environment's choice: a fault  *)
(* names the call of the per-path restoration that raises ("stage", 0 for  *)
(* none) and the exception.                                                *)

Fault(stage, exc, retried, vanished) ==
    [stage |-> stage, exc |-> exc, retried |-> retried, vanished |-> vanished]
NoFault == Fault(0, "none", FALSE, FALSE)

\* class LabelNotFoundError(OSError); the built-in classes below Exception
Bases(cls) ==
    CASE cls = "FileNotFoundError"  -> {"FileNotFoundError", "OSError", "Exception"}
      [] cls = "PermissionError"    -> {"PermissionError", "OSError", "Exception"}
      [] cls = "LabelNotFoundError" -> {"LabelNotFoundError", "OSError", "Exception"}
      [] cls = "OSError"            -> {"OSError", "Exception"}
      [] cls = "TypeError"          -> {"TypeError", "Exception"}
      [] OTHER                      -> {}

\* The exception matchpathcon(path, mode) raises when selinux.matchpathcon
\* raises "raised": a FileNotFoundError for a path that exists is a missing label.
matchpathcon_raises(raised, path_exists) ==
    IF raised = "FileNotFoundError"
    THEN IF path_exists THEN "LabelNotFoundError" ELSE "FileNotFoundError"
    ELSE raised

\* The context selinux.matchpathcon returns for a path.
DefaultContext == "default_t"

\* restorecon_single(path) under a fault: the calls are 1 os.lstat, 2 the
\* os.lstat of the retry, 3 matchpathcon, 4 lgetfilecon, 5 lsetfilecon.
\* The result is the file system and the exception raised ("none" if none).
restorecon_single(f, path, fault) ==
    LET path_ == IF fault.retried THEN realpath(path) ELSE path
        o == lobject(path_)
        context_default == DefaultContext
        context_old == f.con[o]
        exc == IF fault.stage = 0 THEN "none"
               ELSE IF fault.stage = 3
                    THEN matchpathcon_raises(fault.exc, exists(path_) /\ ~fault.vanished)
               ELSE fault.exc
    IN  IF fault.stage = 0 /\ context_old # context_default
        THEN [fs |-> [f EXCEPT !.con[o] = context_default], exc |-> exc]
        ELSE [fs |-> f, exc |-> exc]

----------------------------------------------------------------------------
(* utilities: nzbget                                                       *)

POSTPROCESS_PARCHECK == 92
POSTPROCESS_SUCCESS  == 93
POSTPROCESS_FAILURE  == 94
POSTPROCESS_NONE     == 95

\* level.name.upper()
LevelName(level) ==
    CASE level = "detail"  -> "DETAIL"
      [] level = "info"    -> "INFO"
      [] level = "warning" -> "WARNING"
      [] level = "error"   -> "ERROR"

(* A string is the sequence of its pieces, a piece a sequence of strings:  *)
(* a literal << "text" >>, the placeholder << "{}" >>, or a formatted      *)
(* value (a path is the sequence of its names).                            *)
Lit(text) == << << text >> >>
PH == << << "{}" >> >>

\* message.format(*args): each placeholder takes the next argument
RECURSIVE format(_, _)
format(message, args) ==
    IF message = << >> THEN << >>
    ELSE IF << Head(message) >> = PH
         THEN << Head(args) >> \o format(Tail(message), Tail(args))
         ELSE << Head(message) >> \o format(Tail(message), args)

\* nzbget_log(level, message, prefix): one line per line of the message,
\* none for an empty message; the messages of the scripts hold one line.
nzbget_log(lg, level, message, prefix) ==
    IF message = << >> THEN lg
    ELSE Append(lg, [level |-> LevelName(level), text |-> prefix \o message])

\* The message of nzbget_variable: Python reads
\*   A + B if version else "" + "."    as    (A + B) if version else ("" + ".")
variable_msg(version) ==
    IF version # None
    THEN (Lit("Variable \"") \o PH \o Lit("\" required"))
           \o (Lit(", please upgrade NZBGet to version ") \o PH \o Lit(" or later"))
    ELSE << >> \o Lit(".")

\* nzbget_variable(key, version): the value, or the error line and the exit
nzbget_variable(env, lg, key, version) ==
    IF env[key] # None
    THEN [raised |-> FALSE, value |-> env[key][1], log |-> lg]
    ELSE [raised |-> TRUE, value |-> None,
          log |-> nzbget_log(lg, "error",
                             format(variable_msg(version), << << key >>, version >>),
                             << >>)]

\* descendants_handler(error): the error of a listing names the directory
descendants_handler(lg, top) ==
    nzbget_log(lg, "warning",
               format(Lit("Error while iterating over filesystem: ") \o PH,
                      << << "OSError" >> \o top >>),
               << >>)

\* traceback.format_exception() is called without its required arguments
format_exception_raises(nargs) == nargs < 1

\* The except clause that handles an exception: the first, in the order
\* written, that names one of its classes.
RECURSIVE except_clause(_, _)
except_clause(clauses, exc) ==
    IF clauses = << >> THEN "uncaught"
    ELSE IF Head(clauses) \in Bases(exc) THEN Head(clauses)
    ELSE except_clause(Tail(clauses), exc)

\* Variant: the loop has no clause for PermissionError.
ClausesOf_no_permission(scr) ==
    IF scr = "restorecon"
    THEN << "FileNotFoundError", "LabelNotFoundError", "Exception" >>
    ELSE << "FileNotFoundError", "Exception" >>

\* Variant: the clause for Exception comes first.
ClausesOf_generic_first(scr) ==
    IF scr = "restorecon"
    THEN << "Exception", "FileNotFoundError", "LabelNotFoundError", "PermissionError" >>
    ELSE << "Exception", "FileNotFoundError", "PermissionError" >>

ClausesOf(scr) ==
    IF scr = "restorecon"
    THEN << "FileNotFoundError", "LabelNotFoundError", "PermissionError", "Exception" >>
    ELSE << "FileNotFoundError", "PermissionError", "Exception" >>

----------------------------------------------------------------------------
(* The states the scripts start in.                                        *)

Scripts == {"restorecon", "restoremod"}

\* umask values: the usual 0o022, 0o027 and the extreme 0o777
UmaskSamples == {18, 23, 511}

\* Default ACLs of the destination directory: none, one without a mask entry,
\* one with named entries and a mask.
NoDacl == {}
MinimalDacl ==
    { Entry(ACL_USER_OBJ, 0, 7), Entry(ACL_GROUP_OBJ, 0, 5), Entry(ACL_OTHER, 0, 5) }
MaskedDacl ==
    { Entry(ACL_USER_OBJ, 0, 7), Entry(ACL_USER, 1000, 7), Entry(ACL_GROUP_OBJ, 0, 5),
      Entry(ACL_GROUP, 100, 7), Entry(ACL_MASK, 0, 7), Entry(ACL_OTHER, 0, 5) }
DaclSamples == {NoDacl, MinimalDacl, MaskedDacl}

\* An ACL an archive preserved on the files it unpacked.
ArchiveAcl ==
    { Entry(ACL_USER_OBJ, 0, 6), Entry(ACL_USER, 1000, 7), Entry(ACL_GROUP_OBJ, 0, 4),
      Entry(ACL_MASK, 0, 7), Entry(ACL_OTHER, 0, 4) }

\* Modes << destination directory, what was unpacked below it >>: a setgid
\* destination (0o2775) over plain files (0o640), and a sticky one without
\* setgid (0o1755) over entries with every bit set (0o7777).
ModeSamples == { << 1533, 416 >>, << 1005, 4095 >> }

InitFs(destmode, childmode, destdacl) ==
    LET m == [o \in Objects |->
                 IF Kind(o) = "link" THEN RWX_ALL
                 ELSE IF o = DEST THEN destmode
                 ELSE IF o \in TreeObjects THEN childmode
                 ELSE IF o = EXT THEN RWX_ALL + S_ISVTX
                 ELSE RW_ALL + S_ISUID]
    IN  [ mode |-> m,
          acl  |-> [o \in Objects |->
                       IF Kind(o) = "file" /\ o \in TreeObjects
                       THEN SyncAcl(ArchiveAcl, m[o])
                       ELSE MinimalAcl(m[o])],
          dacl |-> [o \in Objects |->
                       IF o = DEST THEN destdacl
                       ELSE IF Kind(o) = "dir" /\ o \in TreeObjects THEN ArchiveAcl
                       ELSE {}],
          con  |-> [o \in Objects |->
                       IF Kind(o) = "dir" THEN DefaultContext ELSE "unlabeled_t"] ]

InitFsSet == {InitFs(m[1], m[2], destdacl) : m \in ModeSamples, destdacl \in DaclSamples}

Init ==
    /\ script \in Scripts
    /\ environ \in [ NZBPP_TOTALSTATUS : {None, Some("SUCCESS"), Some("FAILURE")},
                     NZBPP_DIRECTORY   : {None, Some(DEST), Some(LNK), Some(FILE), Some(GONE)} ]
    /\ umask \in UmaskSamples
    /\ HAS_ACL_ENTRY \in BOOLEAN
    /\ fs \in InitFsSet
    /\ fs0 = fs
    \* restorecon reads neither the umask nor modes and ACLs, and restoremod
    \* reads the umask only without a default ACL: one value of each there
    /\ script = "restorecon" =>
          /\ umask = 18
          /\ HAS_ACL_ENTRY
          /\ fs = InitFs(1533, 416, NoDacl)
    /\ fs.dacl[DEST] # {} => umask = 18
    /\ fs.dacl[DEST] = {} => HAS_ACL_ENTRY
    /\ pc = "status"
    /\ status = ""
    /\ directory = << >>
    /\ directory_dacl = {}
    /\ directory_mode = 0
    /\ restore_mode = "none"
    /\ todo = << >>
    /\ pending = << >>
    /\ trace = << >>
    /\ scans = << >>
    /\ faults = 0
    /\ log = << >>
    /\ exitcode = 0

\* nzbget_exit(code): sys.exit(code.value)
nzbget_exit(code) ==
    /\ pc' = "exited"
    /\ exitcode' = code

----------------------------------------------------------------------------
(* script: the steps before the walk                                       *)

\* status = nzbget_variable("NZBPP_TOTALSTATUS", "13.0")
ReadStatus ==
    /\ pc = "status"
    /\ LET r == nzbget_variable(environ, log, "NZBPP_TOTALSTATUS", Some("13.0"))
       IN  /\ log' = r.log
           /\ IF r.raised
              THEN nzbget_exit(POSTPROCESS_FAILURE) /\ UNCHANGED status
              ELSE pc' = "checkstatus" /\ status' = r.value /\ UNCHANGED exitcode
    /\ UNCHANGED << script, environ, umask, HAS_ACL_ENTRY, fs0, fs, directory, directory_dacl,
                    directory_mode, restore_mode, todo, pending, trace, scans, faults >>

\* if status != "SUCCESS": log and exit with "none"
CheckStatus ==
    /\ pc = "checkstatus"
    /\ IF status # "SUCCESS"
       THEN /\ log' = nzbget_log(log, "info",
                         format(Lit("Download failed with status ") \o PH \o Lit(", skipping."),
                                << << status >> >>), << >>)
            /\ nzbget_exit(POSTPROCESS_NONE)
       ELSE pc' = "directory" /\ UNCHANGED << log, exitcode >>
    /\ UNCHANGED << script, environ, umask, HAS_ACL_ENTRY, fs0, fs, status, directory, directory_dacl,
                    directory_mode, restore_mode, todo, pending, trace, scans, faults >>

\* directory = nzbget_variable("NZBPP_DIRECTORY")
ReadDirectory ==
    /\ pc = "directory"
    /\ LET r == nzbget_variable(environ, log, "NZBPP_DIRECTORY", None)
       IN  /\ log' = r.log
           /\ IF r.raised
              THEN nzbget_exit(POSTPROCESS_FAILURE) /\ UNCHANGED directory
              ELSE pc' = "checkdest" /\ directory' = r.value /\ UNCHANGED exitcode
    /\ UNCHANGED << script, environ, umask, HAS_ACL_ENTRY, fs0, fs, status, directory_dacl,
                    directory_mode, restore_mode, todo, pending, trace, scans, faults >>

\* Variant: restoremod tests os.path.exists as restorecon does.
destination_found_exists(scr, dir) == exists(dir)

\* The destination is there: os.path.exists in restorecon, os.path.isdir
\* in restoremod.
destination_found(scr, dir) ==
    IF scr = "restorecon" THEN exists(dir) ELSE isdir(dir)

\* descendants(directory, descendants_handler) up to its first yield
start_walk(dir) ==
    /\ pending' = << dir >>
    /\ todo' = << dir >>

\* if not os.path.exists(directory) / os.path.isdir(directory): exit with
\* "none"; restorecon goes on to its loop.
CheckDestination ==
    /\ pc = "checkdest"
    /\ IF ~destination_found(script, directory)
       THEN /\ log' = nzbget_log(log, "info",
                         format(Lit("Nothing to post-process, destination \"") \o PH
                                  \o Lit("\" doesn't exist."), << directory >>), << >>)
            /\ nzbget_exit(POSTPROCESS_NONE)
            /\ UNCHANGED << todo, pending, restore_mode >>
       ELSE IF script = "restorecon"
       THEN /\ pc' = "walk"
            /\ restore_mode' = "con"
            /\ start_walk(directory)
            /\ UNCHANGED << log, exitcode >>
       ELSE /\ pc' = "setup"
            /\ UNCHANGED << log, exitcode, todo, pending, restore_mode >>
    /\ UNCHANGED << script, environ, umask, HAS_ACL_ENTRY, fs0, fs, status, directory, directory_dacl,
                    directory_mode, trace, scans, faults >>

\* restoremod: directory = os.path.realpath(directory), the default ACL and
\* the mode of the destination, and the choice of restore_permissions
Setup ==
    /\ pc = "setup"
    /\ LET dir == realpath(directory)
           dacl == fs.dacl[dir]
       IN  /\ directory' = dir
           /\ directory_dacl' = dacl
           /\ directory_mode' = stat(fs, dir)
           /\ IF dacl # {}
              THEN /\ restore_mode' = "fs"
                   /\ IF ~HAS_ACL_ENTRY
                      THEN /\ log' = nzbget_log(log, "error",
                                        format(Lit("Unable to alter ACLs: detected default ACL on \"")
                                                 \o PH \o Lit("\""), << dir >>), << >>)
                           /\ nzbget_exit(POSTPROCESS_FAILURE)
                           /\ UNCHANGED << todo, pending >>
                      ELSE /\ log' = nzbget_log(log, "info",
                                        format(Lit("Using default ACL to restore permissions of \"")
                                                 \o PH \o Lit("\""), << dir >>), << >>)
                           /\ pc' = "walk"
                           /\ start_walk(dir)
                           /\ UNCHANGED exitcode
              ELSE /\ restore_mode' = "ps"
                   /\ log' = nzbget_log(log, "info",
                                format(Lit("Using process umask to restore permissions of \"")
                                         \o PH \o Lit("\""), << dir >>), << >>)
                   /\ pc' = "walk"
                   /\ start_walk(dir)
                   /\ UNCHANGED exitcode
    /\ UNCHANGED << script, environ, umask, HAS_ACL_ENTRY, fs0, fs, status, trace, scans,
                    faults >>

----------------------------------------------------------------------------
(* script: the main loop                                                   *)

Raised == {"FileNotFoundError", "PermissionError", "OSError"}

\* The faults the calls of one restoration can meet.
FaultsFor(scr, f, path) ==
    IF scr = "restoremod"
    THEN {NoFault} \cup {Fault(st, e, FALSE, FALSE) : st \in 1..3, e \in Raised}
    ELSE {NoFault}
           \cup {Fault(1, e, FALSE, FALSE) : e \in Raised \ {"FileNotFoundError"}}
           \cup {Fault(0, "none", TRUE, FALSE)}
           \cup {Fault(2, e, TRUE, FALSE) : e \in Raised}
           \cup {Fault(3, e, r, FALSE) : e \in Raised, r \in BOOLEAN}
           \cup {Fault(3, "FileNotFoundError", r, TRUE) : r \in BOOLEAN}
           \cup {Fault(4, e, r, FALSE) : e \in Raised, r \in BOOLEAN}
           \cup {Fault(5, e, r, FALSE) : e \in Raised,
                   r \in {b \in BOOLEAN :
                            f.con[lobject(IF b THEN realpath(path) ELSE path)]
                              # DefaultContext}}

\* Whether a restoration under the fault meets a failing call (1) or not (0).
Cost(fault) == IF fault = NoFault THEN 0 ELSE 1

\* restore_permissions(path) (restoremod) or restorecon_single(path) when
\* the call "stage" raises (0: none does): the file system and the ACL object.
restore_path(scr, rmode, f, acl, mode, um, path, stage, retried) ==
    IF scr = "restorecon"
    THEN [fs |-> restorecon_single(f, path, Fault(stage, "none", retried, FALSE)).fs,
          acl |-> acl]
    ELSE LET upto == IF stage = 0 THEN 3 ELSE stage - 1
         IN  IF rmode = "fs"
             THEN restore_from_fs(f, acl, mode, path, upto)
             ELSE [fs |-> restore_from_ps(f, mode, path, um, upto), acl |-> acl]

\* The exception the restoration of the path raises under a fault.
restore_raises(scr, f, path, fault) ==
    IF scr = "restorecon" THEN restorecon_single(f, path, fault).exc ELSE fault.exc

\* The except clauses of the loop: the log after them and the exit status
\* (0: the loop goes on).  An exception raised inside a clause ends the
\* process with the interpreter's status 1 and prints nothing to the log.
handle(scr, lg, path, exc) ==
    LET clause == IF exc = "none" THEN "none" ELSE except_clause(ClausesOf(scr), exc)
    IN  CASE clause = "none" -> [log |-> lg, exit |-> 0]
          [] clause = "FileNotFoundError" ->
               [log |-> nzbget_log(lg, "error",
                           format(Lit("Expected path \"") \o PH
                                    \o Lit("\" does not exist, aborting."), << path >>),
                           << >>),
                exit |-> POSTPROCESS_FAILURE]
          [] clause = "LabelNotFoundError" ->
               [log |-> nzbget_log(lg, "warning",
                           format(Lit("No default SELinux context for \"") \o PH
                                    \o Lit("\", skipping."), << path >>),
                           << >>),
                exit |-> 0]
          [] clause = "PermissionError" ->
               [log |-> nzbget_log(lg, "warning",
                           format(Lit("Permission denied for \"") \o PH
                                    \o Lit("\", skipping."), << path >>),
                           << >>),
                exit |-> 0]
          [] clause = "Exception" ->
               IF format_exception_raises(0)
               THEN [log |-> lg, exit |-> 1]
               ELSE [log |-> nzbget_log(
                                nzbget_log(lg, "error", Lit("Unhandled exception, aborting:"),
                                           << >>),
                                "error", Lit("Traceback"), Lit("  ")),
                     exit |-> POSTPROCESS_FAILURE]

\* Everything the file system holds about one object.
ObjectOf(f, o) == << f.mode[o], f.acl[o], f.dacl[o], f.con[o] >>

\* One pass of the loop body for the next path descendants yields.
Restore ==
    /\ pc = "walk"
    /\ pending # << >>
    /\ LET path == Head(pending)
           all == FaultsFor(script, fs, path)
       IN  \E stage \in {ft.stage : ft \in all}, retried \in BOOLEAN :
           \E r \in {restore_path(script, restore_mode, fs, directory_dacl,
                                  directory_mode, umask, path, stage, retried)} :
           \E touched \in {{o \in Objects : ObjectOf(r.fs, o) # ObjectOf(fs, o)}} :
           \E fault \in {ft \in all : ft.stage = stage /\ ft.retried = retried} :
             /\ faults + Cost(fault) <= MaxFaults
             /\ LET exc == restore_raises(script, fs, path, fault)
                    h == handle(script, log, path, exc)
                IN  /\ fs' = r.fs
                    /\ directory_dacl' = r.acl
                    /\ log' = h.log
                    /\ trace' = Append(trace,
                           [path |-> path, exc |-> exc, stage |-> fault.stage,
                            retried |-> fault.retried,
                            logged |-> SubSeq(h.log, Len(log) + 1, Len(h.log)),
                            touched |-> touched])
                    /\ faults' = faults + Cost(fault)
                    /\ IF h.exit = 0
                       THEN pending' = Tail(pending) /\ UNCHANGED << pc, exitcode >>
                       ELSE nzbget_exit(h.exit) /\ UNCHANGED pending
    /\ UNCHANGED << script, environ, umask, HAS_ACL_ENTRY, fs0, status, directory,
                    directory_mode, restore_mode, todo, scans >>

\* One step of os.walk(top, onerror=onerror), followlinks as given: the
\* paths descendants yields for the listing of top, dirnames before
\* filenames, and the directories the walk goes into next.
os_walk(top, followlinks) ==
    LET names == scandir(top)
        IsDir(n) == isdir(join(top, n))
        NotDir(n) == ~isdir(join(top, n))
        WalkInto(n) == followlinks \/ ~islink(join(top, n))
        dirnames == SelectSeq(names, IsDir)
        filenames == SelectSeq(names, NotDir)
        chain == dirnames \o filenames
        into == SelectSeq(dirnames, WalkInto)
    IN  [ yields |-> [i \in 1..Len(chain) |-> join(top, chain[i])],
          into   |-> [i \in 1..Len(into) |-> join(top, into[i])] ]

\* Variant: os.walk is called with followlinks=True.
followlinks_true == TRUE

\* os.walk(path, onerror=onerror): followlinks keeps its default
followlinks_default == FALSE

\* descendants resumes os.walk when the paths of a listing are used up: the
\* next directory is listed, or the listing fails and descendants_handler
\* logs the error.
Scan ==
    /\ pc = "walk"
    /\ pending = << >>
    /\ todo # << >>
    /\ LET top == Head(todo)
       IN  \E failed \in BOOLEAN :
             /\ failed => faults < MaxFaults \/ ~isdir(top)
             /\ ~failed => isdir(top)
             /\ scans' = Append(scans, [top |-> top, ok |-> ~failed, at |-> Len(trace)])
             /\ IF failed
                THEN /\ log' = descendants_handler(log, top)
                     /\ todo' = Tail(todo)
                     /\ faults' = IF isdir(top) THEN faults + 1 ELSE faults
                     /\ UNCHANGED pending
                ELSE LET w == os_walk(top, followlinks_default)
                     IN  /\ pending' = w.yields
                         /\ todo' = w.into \o Tail(todo)
                         /\ UNCHANGED << log, faults >>
    /\ UNCHANGED << script, environ, umask, HAS_ACL_ENTRY, fs0, fs, pc, status, directory,
                    directory_dacl, directory_mode, restore_mode, trace, exitcode >>

\* nzbget_exit(NZBGetPostProcessExitCode.success) after the loop
Finish ==
    /\ pc = "walk"
    /\ pending = << >>
    /\ todo = << >>
    /\ nzbget_exit(POSTPROCESS_SUCCESS)
    /\ UNCHANGED << script, environ, umask, HAS_ACL_ENTRY, fs0, fs, status, directory,
                    directory_dacl, directory_mode, restore_mode, todo, pending, trace,
                    scans, faults, log >>

Next ==
    \/ ReadStatus
    \/ CheckStatus
    \/ ReadDirectory
    \/ CheckDestination
    \/ Setup
    \/ Restore
    \/ Scan
    \/ Finish

Spec == Init /\ [][Next]_vars

----------------------------------------------------------------------------
(* Properties.                                                             *)

Exited == pc = "exited"
Indices == 1..Len(trace)
Restored(i) == trace[i].exc = "none"
\* the line names the value: one of its pieces is the value
Names(line, piece) == \E k \in 1..Len(line.text) : line.text[k] = piece
\* the paths of the tree rooted at the directory the walk starts from
TreePathsOf(dir) ==
    IF realpath(dir) = DEST
    THEN {dir \o SubSeq(o, 2, Len(o)) : o \in TreeObjects}
    ELSE {dir}
Skippable(scr) ==
    IF scr = "restorecon" THEN {"PermissionError", "LabelNotFoundError"}
    ELSE {"PermissionError"}

\* C1: in process-umask mode, after restore_from_ps on a path that is no
\* symbolic link, the rwx bits are 0o666 AND NOT umask for a non-directory
\* and 0o777 AND NOT umask for a directory.
C1_UmaskClearedFromMode ==
    (script = "restoremod" /\ restore_mode = "ps") =>
        \A i \in Indices :
            (Restored(i) /\ ~islink(trace[i].path)) =>
                LET o == realpath(trace[i].path)
                    base == IF Kind(o) = "dir" THEN RWX_ALL ELSE RW_ALL
                IN  fs.mode[o] % (RWX_ALL + 1) = BitAnd(base, BitNot(umask))

C3_SkippedRunChangesNothing ==
    LET st == environ.NZBPP_TOTALSTATUS
        dv == environ.NZBPP_DIRECTORY
        failed_download == st # None /\ st # Some("SUCCESS")
        missing == /\ st = Some("SUCCESS")
                   /\ dv # None
                   /\ IF script = "restorecon"
                      THEN Kind(realpath(dv[1])) = "none"
                      ELSE Kind(realpath(dv[1])) # "dir"
    IN  (failed_download \/ missing) =>
            /\ fs = fs0
            /\ trace = << >>
            /\ Exited => exitcode = POSTPROCESS_NONE

\* restoremod ended on a destination that is a regular file
C3_Witness ==
    /\ script = "restoremod" /\ Exited /\ exitcode = POSTPROCESS_NONE
    /\ status = "SUCCESS"
    /\ directory = FILE

\* C4: a PermissionError (either script) or LabelNotFoundError (restorecon)
\* on a path logs exactly one line, a WARNING naming the path, and the walk
\* goes on: a run without an aborting error uses up the walk and exits 93.
C4_SkippableErrorGoesOn ==
    /\ \A i \in Indices :
          trace[i].exc \in Skippable(script) =>
              /\ Len(trace[i].logged) = 1
              /\ trace[i].logged[1].level = "WARNING"
              /\ Names(trace[i].logged[1], trace[i].path)
              /\ i = Len(trace) => (pc = "walk" \/ exitcode = POSTPROCESS_SUCCESS)
    /\ ( /\ Exited
         /\ trace # << >>
         /\ \A i \in Indices : trace[i].exc \in {"none"} \cup Skippable(script) )
       => /\ exitcode = POSTPROCESS_SUCCESS
          /\ pending = << >>
          /\ todo = << >>

\* restorecon met a path without default context, restored later paths and
\* ended with success
C4_Witness ==
    /\ script = "restorecon" /\ Exited /\ exitcode = POSTPROCESS_SUCCESS
    /\ \E i \in Indices :
          /\ trace[i].exc = "LabelNotFoundError"
          /\ \E j \in Indices : j > i /\ Restored(j) /\ trace[j].touched # {}

\* C5: a FileNotFoundError of the restoration (in restorecon an lstat that
\* fails only after the retry failed too) logs one ERROR naming the path and
\* ends the run with 94 at that path; a run that ends with 93 met none.
C5_MissingPathAborts ==
    /\ \A i \in Indices :
          /\ trace[i].exc = "FileNotFoundError" =>
                /\ i = Len(trace)
                /\ Exited /\ exitcode = POSTPROCESS_FAILURE
                /\ Len(trace[i].logged) = 1
                /\ trace[i].logged[1].level = "ERROR"
                /\ Names(trace[i].logged[1], trace[i].path)
                /\ (script = "restorecon" /\ trace[i].stage <= 2) =>
                      (trace[i].retried /\ trace[i].stage = 2)
          /\ (script = "restorecon" /\ trace[i].retried /\ trace[i].stage = 0) =>
                Restored(i)
    /\ exitcode = POSTPROCESS_SUCCESS =>
          \A i \in Indices : trace[i].exc # "FileNotFoundError"

\* restorecon restored a path, then met a path whose lstat and retry failed
C5_Witness ==
    /\ script = "restorecon" /\ Exited /\ exitcode = POSTPROCESS_FAILURE
    /\ Len(trace) >= 2
    /\ trace[Len(trace)].exc = "FileNotFoundError"
    /\ trace[Len(trace)].retried /\ trace[Len(trace)].stage = 2
    /\ pending # << >>

\* C6: an exception that is none of FileNotFoundError, PermissionError and
\* LabelNotFoundError is logged in [ERROR] lines and ends the run with 94;
\* every run ends with 93, 94 or 95.
C6_UnhandledExceptionFails ==
    /\ Exited => exitcode \in {POSTPROCESS_SUCCESS, POSTPROCESS_FAILURE, POSTPROCESS_NONE}
    /\ \A i \in Indices :
          trace[i].exc = "OSError" =>
              /\ exitcode = POSTPROCESS_FAILURE
              /\ trace[i].logged # << >>
              /\ \A k \in 1..Len(trace[i].logged) : trace[i].logged[k].level = "ERROR"

\* C7: nzbget_variable on an absent variable logs one ERROR line naming the
\* variable, with the upgrade hint only when a version is given, and exits 94
\* with nothing changed; on a present variable it logs nothing.
C7_RequiredVariableNamed ==
    LET st == environ.NZBPP_TOTALSTATUS
        dv == environ.NZBPP_DIRECTORY
        hint == << ", please upgrade NZBGet to version " >>
    IN  /\ (Exited /\ st = None) =>
              /\ exitcode = POSTPROCESS_FAILURE /\ fs = fs0
              /\ Len(log) = 1 /\ log[1].level = "ERROR"
              /\ Names(log[1], << "NZBPP_TOTALSTATUS" >>)
              /\ Names(log[1], hint)
        /\ (Exited /\ st = Some("SUCCESS") /\ dv = None) =>
              /\ exitcode = POSTPROCESS_FAILURE /\ fs = fs0
              /\ Len(log) = 1 /\ log[1].level = "ERROR"
              /\ Names(log[1], << "NZBPP_DIRECTORY" >>)
              /\ ~Names(log[1], hint)
        /\ pc \in {"checkstatus", "checkdest"} => log = << >>

\* C8 as claimed: in a run that ends with 93 the walk yielded the destination
\* directory first and then every path of the tree rooted at it exactly once,
\* each directory before its entries, also when a listing failed.
C8_EveryPathOnce ==
    exitcode = POSTPROCESS_SUCCESS =>
        /\ trace[1].path = directory
        /\ \A i, j \in Indices : trace[i].path = trace[j].path => i = j
        /\ {trace[i].path : i \in Indices} = TreePathsOf(directory)
        /\ \A i \in Indices : i > 1 =>
              \E j \in 1..(i - 1) : trace[j].path = Front(trace[i].path)

\* C8 amended: in a run that ends with 93 the walk yielded the destination
\* directory first and then, exactly once each, the paths of the tree below
\* it all of whose directories from the destination down were listed without
\* error, none through a symbolic link; each directory is yielded, and so
\* restored, before it is listed and before its entries.  The entries of a
\* directory whose listing fails are not yielded.
C8_ListedPathsOnce ==
    exitcode = POSTPROCESS_SUCCESS =>
        /\ trace[1].path = directory
        /\ \A i, j \in Indices : trace[i].path = trace[j].path => i = j
        /\ {trace[i].path : i \in Indices} =
              {p \in TreePathsOf(directory) :
                  \A n \in Len(directory)..(Len(p) - 1) :
                      \E k \in 1..Len(scans) :
                          scans[k].top = SubSeq(p, 1, n) /\ scans[k].ok}
        /\ \A i \in Indices : i > 1 =>
              \E j \in 1..(i - 1) : trace[j].path = Front(trace[i].path)
        /\ \A k \in 1..Len(scans) :
              \E j \in 1..scans[k].at : trace[j].path = scans[k].top

\* a run in process-umask mode ended with 93 although the listing of a
\* subdirectory with entries failed after the subdirectory was restored
C8_Witness ==
    /\ script = "restoremod" /\ restore_mode = "ps"
    /\ Exited /\ exitcode = POSTPROCESS_SUCCESS
    /\ \E k \in 1..Len(scans) :
          /\ scans[k].top = join(DEST, "d")
          /\ ~scans[k].ok
          /\ scandir(scans[k].top) # << >>
    /\ \E i \in Indices :
          /\ trace[i].path = join(DEST, "d")
          /\ trace[i].touched # {}

\* C9: restoremod changes nothing through a symbolic link: the restoration
\* of a path that is a symbolic link touches no object, the restoration of
\* any path touches at most the object at that path, and every object
\* outside the destination tree, the targets of links among them, keeps its
\* mode, ACL and default ACL for the whole run.
C9_LinksNotFollowed ==
    script = "restoremod" =>
        /\ \A o \in Objects \ TreeObjects : ObjectOf(fs, o) = ObjectOf(fs0, o)
        /\ \A i \in Indices :
              /\ islink(trace[i].path) => trace[i].touched = {}
              /\ trace[i].touched \subseteq {lobject(trace[i].path)}

\* a run in each mode restored the link to the outside directory and the
\* link to a file of the tree without error and ended with success
C9_Witness ==
    /\ script = "restoremod" /\ Exited /\ exitcode = POSTPROCESS_SUCCESS
    /\ \E i, j \in Indices :
          /\ trace[i].path = join(DEST, "l") /\ Restored(i)
          /\ Target(lobject(trace[i].path)) = EXT
          /\ islink(trace[j].path) /\ Restored(j)
          /\ Target(lobject(trace[j].path)) \in TreeObjects
    /\ fs # fs0

\* the effective permissions of an entry of an ACL
Effective(acl, e) ==
    IF e.tag_type \in {ACL_USER, ACL_GROUP_OBJ, ACL_GROUP} /\ acl_has_mask(acl)
    THEN BitAnd(e.permset, PermOf(acl, ACL_MASK))
    ELSE e.permset
\* the entry of the ACL with the tag and qualifier of e
Same(acl, e) ==
    CHOOSE x \in acl : x.tag_type = e.tag_type /\ x.qualifier = e.qualifier

\* C10: in filesystem-ACL mode a directory restored without error has the
\* destination's default ACL as access and as default ACL; a non-directory
\* has an access ACL with the same entries and read and write bits, execute
\* kept only by ACL_USER, ACL_GROUP_OBJ and ACL_GROUP entries of an ACL with
\* a mask, and no entry of it grants effective execute; the ACL object of
\* the destination's default ACL stays as it was read.
C10_DefaultAclInherited ==
    (script = "restoremod" /\ restore_mode = "fs") =>
        LET dacl0 == fs0.dacl[DEST]
        IN  /\ directory_dacl = dacl0
            /\ \A i \in Indices :
                  (Restored(i) /\ ~islink(trace[i].path)) =>
                      LET o == realpath(trace[i].path)
                          acl == fs.acl[o]
                      IN  IF Kind(o) = "dir"
                          THEN acl = dacl0 /\ fs.dacl[o] = dacl0
                          ELSE /\ {<< e.tag_type, e.qualifier >> : e \in acl}
                                    = {<< e.tag_type, e.qualifier >> : e \in dacl0}
                               /\ Cardinality(acl) = Cardinality(dacl0)
                               /\ \A e \in acl :
                                     LET e0 == Same(dacl0, e)
                                         keeps == /\ acl_has_mask(dacl0)
                                                  /\ e.tag_type \in {ACL_USER, ACL_GROUP_OBJ,
                                                                     ACL_GROUP}
                                     IN  /\ e.permset \div 2 = e0.permset \div 2
                                         /\ e.permset % 2 = IF keeps THEN e0.permset % 2 ELSE 0
                                         /\ Effective(acl, e) % 2 = 0

\* a run on a default ACL with a mask restored a file, whose named entries
\* keep execute, and a directory after it
C10_Witness ==
    /\ script = "restoremod" /\ restore_mode = "fs"
    /\ Exited /\ exitcode = POSTPROCESS_SUCCESS
    /\ acl_has_mask(fs0.dacl[DEST])
    /\ \E i, j \in Indices :
          /\ i < j /\ Restored(i) /\ Restored(j)
          /\ Kind(lobject(trace[i].path)) = "file"
          /\ \E e \in fs.acl[lobject(trace[i].path)] : e.permset % 2 = 1
          /\ Kind(lobject(trace[j].path)) = "dir"

====
